---------------------------- MODULE Spec2Model ----------------------------
(***************************************************************************)
(* Configuration loading of TrendRadar (trendradar/core/loader.py).        *)
(*                                                                         *)
(* A Python str is a sequence of one-character strings, so that strip(),   *)
(* lower(), int(), partition() and split() are computed, not assumed; a    *)
(* default value that is never taken apart is kept as one element.         *)
(* os.environ is a function from variable names (spelled character by      *)
(* character) to values; a name outside its DOMAIN is an unset variable.   *)
(* The YAML document is a record: whether the file exists, whether the     *)
(* document is a mapping ("map"), empty ("null") or no YAML ("invalid"),   *)
(* which sections are not mappings, and the scalar values by dotted path.  *)
(***************************************************************************)
EXTENDS Integers, Sequences, FiniteSets, TLC

VARIABLES
  environ,   \* os.environ
  dotenv,    \* the .env file: [exists, lines]
  file,      \* the config file: [exists, doc, bad, vals]
  config,    \* the dict load_config builds
  sources,   \* notification_sources of _print_notification_sources
  output,    \* what _print_notification_sources printed
  pc,        \* position of the run
  exc        \* the exception that escaped load_config, "" if none

vars == <<environ, dotenv, file, config, sources, output, pc, exc>>

----------------------------------------------------------------------------
(* Bounds of the model.                                                    *)

\* file integers range over 0..MaxFileInt
MaxFileInt == 2
\* the .env file has at most MaxDotenvLines lines
MaxDotenvLines == 1
\* generated account lists have up to MaxTokens tokens
MaxTokens == 5

----------------------------------------------------------------------------
(* Python str operations.                                                  *)

Whitespace == {" ", "\t", "\n"}

UpperChars == <<"A","B","C","D","E","F","G","H","I","J","K","L","M",
                "N","O","P","Q","R","S","T","U","V","W","X","Y","Z">>
LowerChars == <<"a","b","c","d","e","f","g","h","i","j","k","l","m",
                "n","o","p","q","r","s","t","u","v","w","x","y","z">>

LowerChar(c) ==
  IF \E i \in 1..Len(UpperChars) : UpperChars[i] = c
  THEN LowerChars[CHOOSE i \in 1..Len(UpperChars) : UpperChars[i] = c]
  ELSE c

\* str.lower()
Lower(s) == [i \in 1..Len(s) |-> LowerChar(s[i])]

RECURSIVE LStrip(_)
LStrip(s) ==
  IF s # <<>> /\ Head(s) \in Whitespace THEN LStrip(Tail(s)) ELSE s

RECURSIVE RStrip(_)
RStrip(s) ==
  IF s # <<>> /\ s[Len(s)] \in Whitespace
  THEN RStrip(SubSeq(s, 1, Len(s) - 1))
  ELSE s

\* str.strip()
Strip(s) == RStrip(LStrip(s))

\* str.startswith(c) / str.endswith(c) for a one-character c
StartsWith(s, c) == s # <<>> /\ s[1] = c
EndsWith(s, c) == s # <<>> /\ s[Len(s)] = c

\* index of the first occurrence of c in s, 0 if none
IndexOf(s, c) ==
  IF \E i \in 1..Len(s) : s[i] = c
  THEN CHOOSE i \in 1..Len(s) : s[i] = c /\ \A j \in 1..(i - 1) : s[j] # c
  ELSE 0

Digits == <<"0","1","2","3","4","5","6","7","8","9">>
IsDigit(c) == \E i \in 1..10 : Digits[i] = c
DigitValue(c) == (CHOOSE i \in 1..10 : Digits[i] = c) - 1

\* the digits-and-underscores body of an int literal: digits, single
\* underscores only between digits
IsIntBody(s) ==
  /\ s # <<>>
  /\ \A i \in 1..Len(s) : IsDigit(s[i]) \/ s[i] = "_"
  /\ IsDigit(s[1]) /\ IsDigit(s[Len(s)])
  /\ \A i \in 1..(Len(s) - 1) : ~(s[i] = "_" /\ s[i + 1] = "_")

RECURSIVE BodyValue(_, _)
BodyValue(s, acc) ==
  IF s = <<>> THEN acc
  ELSE IF Head(s) = "_" THEN BodyValue(Tail(s), acc)
  ELSE BodyValue(Tail(s), 10 * acc + DigitValue(Head(s)))

HasSign(s) == s # <<>> /\ s[1] \in {"+", "-"}
Unsigned(s) == IF HasSign(s) THEN Tail(s) ELSE s

\* int(s) succeeds
IsIntLiteral(s) == IsIntBody(Unsigned(Strip(s)))

\* int(s), for IsIntLiteral(s)
IntValue(s) ==
  LET t == Strip(s)
      v == BodyValue(Unsigned(t), 0)
  IN IF StartsWith(t, "-") THEN 0 - v ELSE v

\* Python's `a or b` on str and on int
OrStr(a, b) == IF a # <<>> THEN a ELSE b
OrInt(a, b) == IF a # 0 THEN a ELSE b

\* Optional[bool]: None is <<>>, a bool b is <<b>>
None == <<>>
Some(b) == <<b>>

----------------------------------------------------------------------------
(* The names of the environment variables the loader reads.                *)

Spell ==
  [
    CONFIG_PATH |-> <<"C","O","N","F","I","G","_","P","A","T","H">>,
    TIMEZONE |-> <<"T","I","M","E","Z","O","N","E">>,
    ENABLE_CRAWLER |-> <<"E","N","A","B","L","E","_","C","R","A","W","L","E","R">>,
    SORT_BY_POSITION_FIRST |-> <<"S","O","R","T","_","B","Y","_","P","O","S","I","T","I","O","N","_","F","I","R","S","T">>,
    REVERSE_CONTENT_ORDER |-> <<"R","E","V","E","R","S","E","_","C","O","N","T","E","N","T","_","O","R","D","E","R">>,
    MAX_NEWS_PER_KEYWORD |-> <<"M","A","X","_","N","E","W","S","_","P","E","R","_","K","E","Y","W","O","R","D">>,
    REPORT_MODE |-> <<"R","E","P","O","R","T","_","M","O","D","E">>,
    ENABLE_NOTIFICATION |-> <<"E","N","A","B","L","E","_","N","O","T","I","F","I","C","A","T","I","O","N">>,
    MAX_ACCOUNTS_PER_CHANNEL |-> <<"M","A","X","_","A","C","C","O","U","N","T","S","_","P","E","R","_","C","H","A","N","N","E","L">>,
    PUSH_WINDOW_ENABLED |-> <<"P","U","S","H","_","W","I","N","D","O","W","_","E","N","A","B","L","E","D">>,
    PUSH_WINDOW_ONCE_PER_DAY |-> <<"P","U","S","H","_","W","I","N","D","O","W","_","O","N","C","E","_","P","E","R","_","D","A","Y">>,
    PUSH_WINDOW_START |-> <<"P","U","S","H","_","W","I","N","D","O","W","_","S","T","A","R","T">>,
    PUSH_WINDOW_END |-> <<"P","U","S","H","_","W","I","N","D","O","W","_","E","N","D">>,
    STORAGE_BACKEND |-> <<"S","T","O","R","A","G","E","_","B","A","C","K","E","N","D">>,
    STORAGE_TXT_ENABLED |-> <<"S","T","O","R","A","G","E","_","T","X","T","_","E","N","A","B","L","E","D">>,
    STORAGE_HTML_ENABLED |-> <<"S","T","O","R","A","G","E","_","H","T","M","L","_","E","N","A","B","L","E","D">>,
    LOCAL_RETENTION_DAYS |-> <<"L","O","C","A","L","_","R","E","T","E","N","T","I","O","N","_","D","A","Y","S">>,
    S3_ENDPOINT_URL |-> <<"S","3","_","E","N","D","P","O","I","N","T","_","U","R","L">>,
    S3_BUCKET_NAME |-> <<"S","3","_","B","U","C","K","E","T","_","N","A","M","E">>,
    S3_ACCESS_KEY_ID |-> <<"S","3","_","A","C","C","E","S","S","_","K","E","Y","_","I","D">>,
    S3_SECRET_ACCESS_KEY |-> <<"S","3","_","S","E","C","R","E","T","_","A","C","C","E","S","S","_","K","E","Y">>,
    S3_REGION |-> <<"S","3","_","R","E","G","I","O","N">>,
    REMOTE_RETENTION_DAYS |-> <<"R","E","M","O","T","E","_","R","E","T","E","N","T","I","O","N","_","D","A","Y","S">>,
    PULL_ENABLED |-> <<"P","U","L","L","_","E","N","A","B","L","E","D">>,
    PULL_DAYS |-> <<"P","U","L","L","_","D","A","Y","S">>,
    FEISHU_WEBHOOK_URL |-> <<"F","E","I","S","H","U","_","W","E","B","H","O","O","K","_","U","R","L">>,
    DINGTALK_WEBHOOK_URL |-> <<"D","I","N","G","T","A","L","K","_","W","E","B","H","O","O","K","_","U","R","L">>,
    WEWORK_WEBHOOK_URL |-> <<"W","E","W","O","R","K","_","W","E","B","H","O","O","K","_","U","R","L">>,
    WEWORK_MSG_TYPE |-> <<"W","E","W","O","R","K","_","M","S","G","_","T","Y","P","E">>,
    TELEGRAM_BOT_TOKEN |-> <<"T","E","L","E","G","R","A","M","_","B","O","T","_","T","O","K","E","N">>,
    TELEGRAM_CHAT_ID |-> <<"T","E","L","E","G","R","A","M","_","C","H","A","T","_","I","D">>,
    EMAIL_FROM |-> <<"E","M","A","I","L","_","F","R","O","M">>,
    EMAIL_PASSWORD |-> <<"E","M","A","I","L","_","P","A","S","S","W","O","R","D">>,
    EMAIL_TO |-> <<"E","M","A","I","L","_","T","O">>,
    EMAIL_SMTP_SERVER |-> <<"E","M","A","I","L","_","S","M","T","P","_","S","E","R","V","E","R">>,
    EMAIL_SMTP_PORT |-> <<"E","M","A","I","L","_","S","M","T","P","_","P","O","R","T">>,
    NTFY_SERVER_URL |-> <<"N","T","F","Y","_","S","E","R","V","E","R","_","U","R","L">>,
    NTFY_TOPIC |-> <<"N","T","F","Y","_","T","O","P","I","C">>,
    NTFY_TOKEN |-> <<"N","T","F","Y","_","T","O","K","E","N">>,
    BARK_URL |-> <<"B","A","R","K","_","U","R","L">>,
    SLACK_WEBHOOK_URL |-> <<"S","L","A","C","K","_","W","E","B","H","O","O","K","_","U","R","L">>
  ]

EmptyDict == [k \in {} |-> 0]

\* os.environ.get(key, "")
Getenv(key) ==
  IF Spell[key] \in DOMAIN environ THEN environ[Spell[key]] ELSE <<>>

\* _get_env_bool(key): None when unset or blank
GetEnvBoolNoLower(key) ==
  LET value == Strip(Getenv(key))
  IN IF value = <<>> THEN None
     ELSE Some(value \in {<<"t","r","u","e">>, <<"1">>})

GetEnvBool(key) ==
  LET value == Lower(Strip(Getenv(key)))
  IN IF value = <<>> THEN None
     ELSE Some(value \in {<<"t","r","u","e">>, <<"1">>})

\* _get_env_int(key, default)
GetEnvIntBadAsOne(key, default) ==
  LET value == Strip(Getenv(key))
  IN IF value = <<>> THEN default
     ELSE IF IsIntLiteral(value) THEN IntValue(value)
     ELSE 1

GetEnvInt(key, default) ==
  LET value == Strip(Getenv(key))
  IN IF value = <<>> THEN default
     ELSE IF IsIntLiteral(value) THEN IntValue(value)
     ELSE default

\* _get_env_str(key, default)
GetEnvStrNoStrip(key, default) == OrStr(Getenv(key), default)

GetEnvStr(key, default) == OrStr(Strip(Getenv(key)), default)

\* `env if env is not None else fallback` on an Optional[bool]
IfNotNone(opt, fallback) == IF opt # None THEN opt[1] ELSE fallback

----------------------------------------------------------------------------
(* _load_dotenv: one line of the .env file applied to an environment.      *)

Unquote(value) ==
  IF \/ (StartsWith(value, "\"") /\ EndsWith(value, "\""))
     \/ (StartsWith(value, "'") /\ EndsWith(value, "'"))
  THEN SubSeq(value, 2, Len(value) - 1)
  ELSE value

\* the (key, value) a stripped line holds: line.partition("=")
LineKey(line) == Strip(SubSeq(line, 1, IndexOf(line, "=") - 1))
LineValue(line) ==
  Unquote(Strip(SubSeq(line, IndexOf(line, "=") + 1, Len(line))))

\* the line is neither blank, nor a comment, and holds KEY=VALUE
IsAssignment(line) ==
  /\ line # <<>>
  /\ ~StartsWith(line, "#")
  /\ IndexOf(line, "=") > 0
  /\ LineKey(line) # <<>>

DotenvLineOverwrite(env, raw) ==
  LET line == Strip(raw)
  IN IF IsAssignment(line)
     THEN (LineKey(line) :> LineValue(line)) @@ env
     ELSE env

DotenvLine(env, raw) ==
  LET line == Strip(raw)
  IN IF IsAssignment(line) /\ LineKey(line) \notin DOMAIN env
     THEN (LineKey(line) :> LineValue(line)) @@ env
     ELSE env

RECURSIVE DotenvLines(_, _)
DotenvLines(env, lines) ==
  IF lines = <<>> THEN env
  ELSE DotenvLines(DotenvLine(env, Head(lines)), Tail(lines))

----------------------------------------------------------------------------
(* The YAML document.                                                      *)

\* mapping.get(path, default) on a scalar of the document
FGet(path, default) ==
  IF path \in DOMAIN file.vals THEN file.vals[path] ELSE default

\* the value at `section` is a mapping (or the key is missing, and the
\* default {} is used); the sections of file.bad are null or scalars
IsMapping(section) == section \notin file.bad

\* dict.update(new)
Update(dict, new) == new @@ dict

----------------------------------------------------------------------------
(* The steps of a run: the module import, then load_config.                *)

\* an exception leaves load_config
Raise(e) ==
  /\ pc' = "raised"
  /\ exc' = e
  /\ UNCHANGED <<environ, dotenv, file, config, sources, output>>

\* a section resolver returned `new`, merged or stored by load_config
Goto(next, newConfig) ==
  /\ pc' = next
  /\ config' = newConfig
  /\ UNCHANGED <<environ, dotenv, file, sources, output, exc>>

\* module import: _load_dotenv()
LoadDotenv ==
  /\ pc = "import"
  /\ environ' = IF dotenv.exists THEN DotenvLines(environ, dotenv.lines)
                ELSE environ
  /\ pc' = "open"
  /\ UNCHANGED <<dotenv, file, config, sources, output, exc>>

\* load_config: the existence check of config_path (the argument, else
\* CONFIG_PATH, else config/config.yaml) and yaml.safe_load, which raises
\* on a file that is no YAML
OpenConfig ==
  /\ pc = "open"
  /\ IF ~file.exists THEN Raise("FileNotFoundError")
     ELSE IF file.doc = "invalid" THEN Raise("YAMLError")
     ELSE Goto("app", EmptyDict)

\* config_data.get(section, ...) raises on a document that is no mapping
DocIsMapping == file.doc = "map"

AppConfig ==
  [VERSION_CHECK_URL |-> FGet("app.version_check_url", <<>>),
   SHOW_VERSION_UPDATE |-> FGet("app.show_version_update", TRUE),
   TIMEZONE |-> OrStr(GetEnvStr("TIMEZONE", <<>>),
                      FGet("app.timezone", <<"Asia/Shanghai">>))]

LoadAppConfig ==
  /\ pc = "app"
  /\ IF DocIsMapping /\ IsMapping("app")
     THEN Goto("crawler", Update(config, AppConfig))
     ELSE Raise("AttributeError")

CrawlerConfig ==
  LET enable_crawler_env == GetEnvBool("ENABLE_CRAWLER")
  IN [REQUEST_INTERVAL |-> FGet("crawler.request_interval", 100),
      USE_PROXY |-> FGet("crawler.use_proxy", FALSE),
      DEFAULT_PROXY |-> FGet("crawler.default_proxy", <<>>),
      ENABLE_CRAWLER |->
        IfNotNone(enable_crawler_env, FGet("crawler.enable_crawler", TRUE))]

LoadCrawlerConfig ==
  /\ pc = "crawler"
  /\ IF DocIsMapping /\ IsMapping("crawler")
     THEN Goto("report", Update(config, CrawlerConfig))
     ELSE Raise("AttributeError")

ReportConfig ==
  LET sort_by_position_env == GetEnvBool("SORT_BY_POSITION_FIRST")
      reverse_content_env == GetEnvBool("REVERSE_CONTENT_ORDER")
      max_news_env == GetEnvInt("MAX_NEWS_PER_KEYWORD", 0)
  IN [REPORT_MODE |-> OrStr(GetEnvStr("REPORT_MODE", <<>>),
                            FGet("report.mode", <<"daily">>)),
      RANK_THRESHOLD |-> FGet("report.rank_threshold", 10),
      SORT_BY_POSITION_FIRST |->
        IfNotNone(sort_by_position_env,
                  FGet("report.sort_by_position_first", FALSE)),
      MAX_NEWS_PER_KEYWORD |->
        OrInt(max_news_env, FGet("report.max_news_per_keyword", 0)),
      REVERSE_CONTENT_ORDER |->
        IfNotNone(reverse_content_env,
                  FGet("report.reverse_content_order", FALSE))]

LoadReportConfig ==
  /\ pc = "report"
  /\ IF DocIsMapping /\ IsMapping("report")
     THEN Goto("notification", Update(config, ReportConfig))
     ELSE Raise("AttributeError")

\* BATCH_SEND_INTERVAL is a float; the default 1.0 is kept as its text
NotificationConfig ==
  LET enable_notification_env == GetEnvBool("ENABLE_NOTIFICATION")
  IN [ENABLE_NOTIFICATION |->
        IfNotNone(enable_notification_env,
                  FGet("notification.enable_notification", TRUE)),
      MESSAGE_BATCH_SIZE |-> FGet("notification.message_batch_size", 4000),
      DINGTALK_BATCH_SIZE |-> FGet("notification.dingtalk_batch_size", 20000),
      FEISHU_BATCH_SIZE |-> FGet("notification.feishu_batch_size", 29000),
      BARK_BATCH_SIZE |-> FGet("notification.bark_batch_size", 3600),
      SLACK_BATCH_SIZE |-> FGet("notification.slack_batch_size", 4000),
      BATCH_SEND_INTERVAL |-> FGet("notification.batch_send_interval", "1.0"),
      FEISHU_MESSAGE_SEPARATOR |->
        FGet("notification.feishu_message_separator", <<"-","-","-">>),
      MAX_ACCOUNTS_PER_CHANNEL |->
        OrInt(GetEnvInt("MAX_ACCOUNTS_PER_CHANNEL", 0),
              FGet("notification.max_accounts_per_channel", 3))]

LoadNotificationConfig ==
  /\ pc = "notification"
  /\ IF DocIsMapping /\ IsMapping("notification")
     THEN Goto("push_window", Update(config, NotificationConfig))
     ELSE Raise("AttributeError")

PushWindowConfig ==
  LET enabled_env == GetEnvBool("PUSH_WINDOW_ENABLED")
      once_per_day_env == GetEnvBool("PUSH_WINDOW_ONCE_PER_DAY")
  IN [ENABLED |->
        IfNotNone(enabled_env,
                  FGet("notification.push_window.enabled", FALSE)),
      TIME_RANGE |->
        [START |-> OrStr(GetEnvStr("PUSH_WINDOW_START", <<>>),
                         FGet("notification.push_window.time_range.start",
                              <<"08:00">>)),
         END |-> OrStr(GetEnvStr("PUSH_WINDOW_END", <<>>),
                       FGet("notification.push_window.time_range.end",
                            <<"22:00">>))],
      ONCE_PER_DAY |->
        IfNotNone(once_per_day_env,
                  FGet("notification.push_window.once_per_day", TRUE))]

LoadPushWindowConfig ==
  /\ pc = "push_window"
  /\ IF /\ DocIsMapping
        /\ IsMapping("notification")
        /\ IsMapping("notification.push_window")
        /\ IsMapping("notification.push_window.time_range")
     THEN Goto("weight", Update(config, [PUSH_WINDOW |-> PushWindowConfig]))
     ELSE Raise("AttributeError")

\* the weights are floats; the default 1.0 is kept as its text
WeightConfig ==
  [RANK_WEIGHT |-> FGet("weight.rank_weight", "1.0"),
   FREQUENCY_WEIGHT |-> FGet("weight.frequency_weight", "1.0"),
   HOTNESS_WEIGHT |-> FGet("weight.hotness_weight", "1.0")]

LoadWeightConfig ==
  /\ pc = "weight"
  /\ IF DocIsMapping /\ IsMapping("weight")
     THEN Goto("platforms", Update(config, [WEIGHT_CONFIG |-> WeightConfig]))
     ELSE Raise("AttributeError")

\* config["PLATFORMS"] = config_data.get("platforms", []): passed through
LoadPlatforms ==
  /\ pc = "platforms"
  /\ IF DocIsMapping
     THEN Goto("storage",
               Update(config, [PLATFORMS |-> FGet("platforms", <<>>)]))
     ELSE Raise("AttributeError")

StorageConfig ==
  LET txt_enabled_env == GetEnvBool("STORAGE_TXT_ENABLED")
      html_enabled_env == GetEnvBool("STORAGE_HTML_ENABLED")
      pull_enabled_env == GetEnvBool("PULL_ENABLED")
  IN [BACKEND |-> OrStr(GetEnvStr("STORAGE_BACKEND", <<>>),
                        FGet("storage.backend", <<"auto">>)),
      FORMATS |->
        [SQLITE |-> FGet("storage.formats.sqlite", TRUE),
         TXT |-> IfNotNone(txt_enabled_env, FGet("storage.formats.txt", TRUE)),
         HTML |-> IfNotNone(html_enabled_env,
                            FGet("storage.formats.html", TRUE))],
      \* the key LOCAL (a reserved word of the language)
      Local |->
        [DATA_DIR |-> FGet("storage.local.data_dir", <<"output">>),
         RETENTION_DAYS |->
           OrInt(GetEnvInt("LOCAL_RETENTION_DAYS", 0),
                 FGet("storage.local.retention_days", 0))],
      REMOTE |->
        [ENDPOINT_URL |-> OrStr(GetEnvStr("S3_ENDPOINT_URL", <<>>),
                                FGet("storage.remote.endpoint_url", <<>>)),
         BUCKET_NAME |-> OrStr(GetEnvStr("S3_BUCKET_NAME", <<>>),
                               FGet("storage.remote.bucket_name", <<>>)),
         ACCESS_KEY_ID |-> OrStr(GetEnvStr("S3_ACCESS_KEY_ID", <<>>),
                                 FGet("storage.remote.access_key_id", <<>>)),
         SECRET_ACCESS_KEY |->
           OrStr(GetEnvStr("S3_SECRET_ACCESS_KEY", <<>>),
                 FGet("storage.remote.secret_access_key", <<>>)),
         REGION |-> OrStr(GetEnvStr("S3_REGION", <<>>),
                          FGet("storage.remote.region", <<>>)),
         RETENTION_DAYS |->
           OrInt(GetEnvInt("REMOTE_RETENTION_DAYS", 0),
                 FGet("storage.remote.retention_days", 0))],
      PULL |->
        [ENABLED |-> IfNotNone(pull_enabled_env,
                               FGet("storage.pull.enabled", FALSE)),
         DAYS |-> OrInt(GetEnvInt("PULL_DAYS", 0),
                        FGet("storage.pull.days", 7))]]

LoadStorageConfig ==
  /\ pc = "storage"
  /\ IF /\ DocIsMapping
        /\ IsMapping("storage")
        /\ IsMapping("storage.formats")
        /\ IsMapping("storage.local")
        /\ IsMapping("storage.remote")
        /\ IsMapping("storage.pull")
     THEN Goto("webhook", Update(config, [STORAGE |-> StorageConfig]))
     ELSE Raise("AttributeError")

\* _get_env_str(NAME) or webhooks.get(key, "")
WebhookStr(name, path) ==
  OrStr(GetEnvStr(name, <<>>), FGet(path, <<>>))

WebhookConfig ==
  [FEISHU_WEBHOOK_URL |-> WebhookStr("FEISHU_WEBHOOK_URL", "notification.webhooks.feishu_url"),
   DINGTALK_WEBHOOK_URL |-> WebhookStr("DINGTALK_WEBHOOK_URL", "notification.webhooks.dingtalk_url"),
   WEWORK_WEBHOOK_URL |-> WebhookStr("WEWORK_WEBHOOK_URL", "notification.webhooks.wework_url"),
   WEWORK_MSG_TYPE |->
     OrStr(GetEnvStr("WEWORK_MSG_TYPE", <<>>),
           FGet("notification.webhooks.wework_msg_type", <<"markdown">>)),
   TELEGRAM_BOT_TOKEN |->
     WebhookStr("TELEGRAM_BOT_TOKEN", "notification.webhooks.telegram_bot_token"),
   TELEGRAM_CHAT_ID |-> WebhookStr("TELEGRAM_CHAT_ID", "notification.webhooks.telegram_chat_id"),
   EMAIL_FROM |-> WebhookStr("EMAIL_FROM", "notification.webhooks.email_from"),
   EMAIL_PASSWORD |-> WebhookStr("EMAIL_PASSWORD", "notification.webhooks.email_password"),
   EMAIL_TO |-> WebhookStr("EMAIL_TO", "notification.webhooks.email_to"),
   EMAIL_SMTP_SERVER |-> WebhookStr("EMAIL_SMTP_SERVER", "notification.webhooks.email_smtp_server"),
   EMAIL_SMTP_PORT |-> WebhookStr("EMAIL_SMTP_PORT", "notification.webhooks.email_smtp_port"),
   NTFY_SERVER_URL |->
     OrStr(OrStr(GetEnvStr("NTFY_SERVER_URL", <<>>),
                 FGet("notification.webhooks.ntfy_server_url", <<>>)),
           <<"https://ntfy.sh">>),
   NTFY_TOPIC |-> WebhookStr("NTFY_TOPIC", "notification.webhooks.ntfy_topic"),
   NTFY_TOKEN |-> WebhookStr("NTFY_TOKEN", "notification.webhooks.ntfy_token"),
   BARK_URL |-> WebhookStr("BARK_URL", "notification.webhooks.bark_url"),
   SLACK_WEBHOOK_URL |-> WebhookStr("SLACK_WEBHOOK_URL", "notification.webhooks.slack_webhook_url")]

LoadWebhookConfig ==
  /\ pc = "webhook"
  /\ IF /\ DocIsMapping
        /\ IsMapping("notification")
        /\ IsMapping("notification.webhooks")
     THEN Goto("print", Update(config, WebhookConfig))
     ELSE Raise("AttributeError")

----------------------------------------------------------------------------
(* trendradar/core/config.py: the account-list parser and the validator    *)
(* of paired lists that the summary calls.                                 *)

\* str.split(sep)
RECURSIVE Split(_, _)
Split(s, sep) ==
  IF IndexOf(s, sep) = 0 THEN <<s>>
  ELSE <<SubSeq(s, 1, IndexOf(s, sep) - 1)>>
       \o Split(SubSeq(s, IndexOf(s, sep) + 1, Len(s)), sep)

RECURSIVE NonEmpty(_)
NonEmpty(parts) ==
  IF parts = <<>> THEN <<>>
  ELSE IF Head(parts) = <<>> THEN NonEmpty(Tail(parts))
  ELSE <<Head(parts)>> \o NonEmpty(Tail(parts))

\* parse_multi_account_config(config_value): the trimmed, non-empty tokens
\* of a comma-separated value, in order
ParseMultiAccountConfig(value) ==
  IF value = <<>> THEN <<>>
  ELSE LET parts == Split(value, ",")
       IN NonEmpty([i \in 1..Len(parts) |-> Strip(parts[i])])

\* validate_paired_configs(configs, channel, required_keys), on the token
\* lists of the required fields in order: (valid, count)
ValidatePairedConfigs(lists) ==
  LET n == Len(lists[1])
  IN IF n > 0 /\ \A i \in 1..Len(lists) : Len(lists[i]) = n
     THEN [valid |-> TRUE, count |-> n]
     ELSE [valid |-> FALSE, count |-> 0]

----------------------------------------------------------------------------
(* _print_notification_sources                                             *)

Min(a, b) == IF a <= b THEN a ELSE b

\* "环境变量" if os.environ.get(NAME) else "配置文件"
SourceOf(name) == IF Getenv(name) # <<>> THEN "env" ELSE "file"

\* a channel with one list of accounts: Feishu, DingTalk, WeWork, Bark, Slack
SingleChannelUncapped(channel, name) ==
  IF config[name] # <<>>
  THEN LET accounts == ParseMultiAccountConfig(config[name])
           count == Len(accounts)
       IN <<[channel |-> channel, source |-> SourceOf(name), count |-> count]>>
  ELSE <<>>

SingleChannel(channel, name) ==
  IF config[name] # <<>>
  THEN LET accounts == ParseMultiAccountConfig(config[name])
           count == Min(Len(accounts), config["MAX_ACCOUNTS_PER_CHANNEL"])
       IN <<[channel |-> channel, source |-> SourceOf(name), count |-> count]>>
  ELSE <<>>

TelegramChannelUnvalidated ==
  IF config["TELEGRAM_BOT_TOKEN"] # <<>> /\ config["TELEGRAM_CHAT_ID"] # <<>>
  THEN LET tokens == ParseMultiAccountConfig(config["TELEGRAM_BOT_TOKEN"])
           chat_ids == ParseMultiAccountConfig(config["TELEGRAM_CHAT_ID"])
       IN IF Len(tokens) > 0
          THEN <<[channel |-> "Telegram",
                  source |-> SourceOf("TELEGRAM_BOT_TOKEN"),
                  count |-> Min(Len(tokens),
                                config["MAX_ACCOUNTS_PER_CHANNEL"])]>>
          ELSE <<>>
  ELSE <<>>

TelegramChannel ==
  IF config["TELEGRAM_BOT_TOKEN"] # <<>> /\ config["TELEGRAM_CHAT_ID"] # <<>>
  THEN LET tokens == ParseMultiAccountConfig(config["TELEGRAM_BOT_TOKEN"])
           chat_ids == ParseMultiAccountConfig(config["TELEGRAM_CHAT_ID"])
           res == ValidatePairedConfigs(<<tokens, chat_ids>>)
       IN IF res.valid /\ res.count > 0
          THEN <<[channel |-> "Telegram",
                  source |-> SourceOf("TELEGRAM_BOT_TOKEN"),
                  count |-> Min(res.count,
                                config["MAX_ACCOUNTS_PER_CHANNEL"])]>>
          ELSE <<>>
  ELSE <<>>

\* the e-mail line carries no account count
EmailChannel ==
  IF /\ config["EMAIL_FROM"] # <<>>
     /\ config["EMAIL_PASSWORD"] # <<>>
     /\ config["EMAIL_TO"] # <<>>
  THEN <<[channel |-> "Email", source |-> SourceOf("EMAIL_FROM")]>>
  ELSE <<>>

NtfyChannel ==
  IF config["NTFY_SERVER_URL"] # <<>> /\ config["NTFY_TOPIC"] # <<>>
  THEN LET topics == ParseMultiAccountConfig(config["NTFY_TOPIC"])
           tokens == ParseMultiAccountConfig(config["NTFY_TOKEN"])
           res == ValidatePairedConfigs(<<topics, tokens>>)
       IN IF tokens # <<>>
          THEN IF res.valid /\ res.count > 0
               THEN <<[channel |-> "ntfy",
                       source |-> SourceOf("NTFY_SERVER_URL"),
                       count |-> Min(res.count,
                                     config["MAX_ACCOUNTS_PER_CHANNEL"])]>>
               ELSE <<>>
          ELSE <<[channel |-> "ntfy",
                  source |-> SourceOf("NTFY_SERVER_URL"),
                  count |-> Min(Len(topics),
                                config["MAX_ACCOUNTS_PER_CHANNEL"])]>>
  ELSE <<>>

NotificationSources ==
  SingleChannel("Feishu", "FEISHU_WEBHOOK_URL")
  \o SingleChannel("DingTalk", "DINGTALK_WEBHOOK_URL")
  \o SingleChannel("WeWork", "WEWORK_WEBHOOK_URL")
  \o TelegramChannel
  \o EmailChannel
  \o NtfyChannel
  \o SingleChannel("Bark", "BARK_URL")
  \o SingleChannel("Slack", "SLACK_WEBHOOK_URL")

PrintedSourcesAlways(lines) ==
  <<[msg |-> "sources", lines |-> lines],
    [msg |-> "max_accounts",
     value |-> config["MAX_ACCOUNTS_PER_CHANNEL"]]>>

\* the two prints of a non-empty summary, or the "no channel" message
Printed(lines) ==
  IF lines # <<>>
  THEN <<[msg |-> "sources", lines |-> lines],
         [msg |-> "max_accounts",
          value |-> config["MAX_ACCOUNTS_PER_CHANNEL"]]>>
  ELSE <<[msg |-> "none"]>>

\* _print_notification_sources(config), then `return config`
PrintNotificationSources ==
  /\ pc = "print"
  /\ sources' = NotificationSources
  /\ output' = Printed(NotificationSources)
  /\ pc' = "done"
  /\ UNCHANGED <<environ, dotenv, file, config, exc>>

----------------------------------------------------------------------------
(* The fields an environment variable overrides: the variable, the type,   *)
(* the path of the key in the document and the section that holds it.      *)

F(name, kind, path) == [name |-> name, kind |-> kind, path |-> path]

BoolFields ==
  {F("ENABLE_CRAWLER", "bool", "crawler.enable_crawler"),
   F("SORT_BY_POSITION_FIRST", "bool", "report.sort_by_position_first"),
   F("REVERSE_CONTENT_ORDER", "bool", "report.reverse_content_order"),
   F("ENABLE_NOTIFICATION", "bool", "notification.enable_notification"),
   F("PUSH_WINDOW_ENABLED", "bool", "notification.push_window.enabled"),
   F("PUSH_WINDOW_ONCE_PER_DAY", "bool",
     "notification.push_window.once_per_day"),
   F("STORAGE_TXT_ENABLED", "bool", "storage.formats.txt"),
   F("STORAGE_HTML_ENABLED", "bool", "storage.formats.html"),
   F("PULL_ENABLED", "bool", "storage.pull.enabled")}

IntFields ==
  {F("MAX_NEWS_PER_KEYWORD", "int", "report.max_news_per_keyword"),
   F("MAX_ACCOUNTS_PER_CHANNEL", "int",
     "notification.max_accounts_per_channel"),
   F("LOCAL_RETENTION_DAYS", "int", "storage.local.retention_days"),
   F("REMOTE_RETENTION_DAYS", "int", "storage.remote.retention_days"),
   F("PULL_DAYS", "int", "storage.pull.days")}

StrFields ==
  {F("TIMEZONE", "str", "app.timezone"),
   F("REPORT_MODE", "str", "report.mode"),
   F("PUSH_WINDOW_START", "str", "notification.push_window.time_range.start"),
   F("PUSH_WINDOW_END", "str", "notification.push_window.time_range.end"),
   F("STORAGE_BACKEND", "str", "storage.backend"),
   F("S3_ENDPOINT_URL", "str", "storage.remote.endpoint_url"),
   F("S3_BUCKET_NAME", "str", "storage.remote.bucket_name"),
   F("S3_ACCESS_KEY_ID", "str", "storage.remote.access_key_id"),
   F("S3_SECRET_ACCESS_KEY", "str", "storage.remote.secret_access_key"),
   F("S3_REGION", "str", "storage.remote.region")}

WebhookFields ==
  {F("FEISHU_WEBHOOK_URL", "str", "notification.webhooks.feishu_url"),
   F("DINGTALK_WEBHOOK_URL", "str", "notification.webhooks.dingtalk_url"),
   F("WEWORK_WEBHOOK_URL", "str", "notification.webhooks.wework_url"),
   F("WEWORK_MSG_TYPE", "str", "notification.webhooks.wework_msg_type"),
   F("TELEGRAM_BOT_TOKEN", "str", "notification.webhooks.telegram_bot_token"),
   F("TELEGRAM_CHAT_ID", "str", "notification.webhooks.telegram_chat_id"),
   F("EMAIL_FROM", "str", "notification.webhooks.email_from"),
   F("EMAIL_PASSWORD", "str", "notification.webhooks.email_password"),
   F("EMAIL_TO", "str", "notification.webhooks.email_to"),
   F("EMAIL_SMTP_SERVER", "str", "notification.webhooks.email_smtp_server"),
   F("EMAIL_SMTP_PORT", "str", "notification.webhooks.email_smtp_port"),
   F("NTFY_SERVER_URL", "str", "notification.webhooks.ntfy_server_url"),
   F("NTFY_TOPIC", "str", "notification.webhooks.ntfy_topic"),
   F("NTFY_TOKEN", "str", "notification.webhooks.ntfy_token"),
   F("BARK_URL", "str", "notification.webhooks.bark_url"),
   F("SLACK_WEBHOOK_URL", "str", "notification.webhooks.slack_webhook_url")}

\* the channels with one list of accounts
SingleChannels ==
  {[channel |-> "Feishu", name |-> "FEISHU_WEBHOOK_URL",
    path |-> "notification.webhooks.feishu_url"],
   [channel |-> "DingTalk", name |-> "DINGTALK_WEBHOOK_URL",
    path |-> "notification.webhooks.dingtalk_url"],
   [channel |-> "WeWork", name |-> "WEWORK_WEBHOOK_URL",
    path |-> "notification.webhooks.wework_url"],
   [channel |-> "Bark", name |-> "BARK_URL",
    path |-> "notification.webhooks.bark_url"],
   [channel |-> "Slack", name |-> "SLACK_WEBHOOK_URL",
    path |-> "notification.webhooks.slack_webhook_url"]}

\* the places of the document that load_config reads as mappings
Sections ==
  {"app", "crawler", "report", "notification", "notification.push_window",
   "notification.push_window.time_range", "notification.webhooks", "weight",
   "storage", "storage.formats", "storage.local", "storage.remote",
   "storage.pull"}

----------------------------------------------------------------------------
(* The inputs of a run: the process environment, the .env file and the     *)
(* config file. One group of related keys is set at a time.                *)

\* the variable is unset, or set to one of vals
EnvOf(name, vals) == {EmptyDict} \cup {Spell[name] :> v : v \in vals}

\* the key is missing from the document, or holds one of vals
FileOf(path, vals) == {EmptyDict} \cup {path :> v : v \in vals}

BoolEnvStrs ==
  {<<>>, <<" ">>, <<"t","r","u","e">>, <<"T","R","U","E">>, <<" ","T","r","u","e"," ">>, <<"1">>,
   <<"f","a","l","s","e">>, <<"0">>, <<"n","o">>, <<"y","e","s">>}

IntEnvStrs ==
  {<<>>, <<" ">>, <<"0">>, <<"2">>, <<" ","4"," ">>, <<"-","1">>, <<"+","5">>, <<"1","_","0">>,
   <<"a","b","c">>, <<"3",".","5">>, <<"1","_","_","0">>}

StrEnvStrs == {<<>>, <<" ">>, <<"x">>, <<" ","x"," ">>}
StrFileStrs == {<<>>, <<"y">>}

FileInts == 0..MaxFileInt

TokenNames == <<"a","b","c","d","e","f","g","h">>

\* the value "a,b,c,..." of n accounts
RECURSIVE Accounts(_)
Accounts(n) ==
  IF n = 0 THEN <<>>
  ELSE IF n = 1 THEN <<TokenNames[1]>>
  ELSE Accounts(n - 1) \o <<",", TokenNames[n]>>

AccountEnvStrs ==
  {<<" ">>, <<",">>, <<"a",",","b",",",",","c"," ">>} \cup {Accounts(n) : n \in 1..MaxTokens}
AccountFileStrs == {<<>>, <<"u","1",",","u","2">>, <<",", " ">>}

NoDotenv == [exists |-> FALSE, lines |-> <<>>]
Document(vals) == [exists |-> TRUE, doc |-> "map", bad |-> {}, vals |-> vals]

InitWith(env, dot, f) ==
  /\ environ = env
  /\ dotenv = dot
  /\ file = f
  /\ config = EmptyDict
  /\ sources = <<>>
  /\ output = <<>>
  /\ pc = "import"
  /\ exc = ""

\* one boolean, integer or string field
InitField ==
  \/ \E fd \in BoolFields :
       \E e \in EnvOf(fd.name, BoolEnvStrs), v \in FileOf(fd.path, BOOLEAN) :
         InitWith(e, NoDotenv, Document(v))
  \/ \E fd \in IntFields :
       \E e \in EnvOf(fd.name, IntEnvStrs), v \in FileOf(fd.path, FileInts) :
         InitWith(e, NoDotenv, Document(v))
  \/ \E fd \in StrFields \cup WebhookFields :
       \E e \in EnvOf(fd.name, StrEnvStrs), v \in FileOf(fd.path, StrFileStrs) :
         InitWith(e, NoDotenv, Document(v))

MaxEnvStrs == {<<"0">>, <<"2">>, <<"a","b","c">>}
MaxPath == "notification.max_accounts_per_channel"

\* one single-list channel and the maximum of accounts
InitSingleChannel ==
  \E ch \in SingleChannels :
    \E e \in EnvOf(ch.name, AccountEnvStrs),
       v \in FileOf(ch.path, AccountFileStrs),
       me \in EnvOf("MAX_ACCOUNTS_PER_CHANNEL", MaxEnvStrs),
       mv \in FileOf(MaxPath, FileInts) :
      InitWith(e @@ me, NoDotenv, Document(v @@ mv))

\* Telegram: bot tokens and chat ids
InitTelegram ==
  \E te \in EnvOf("TELEGRAM_BOT_TOKEN", {<<" ">>, <<"a">>, <<"a",",","b">>}),
     ce \in EnvOf("TELEGRAM_CHAT_ID", {<<" ">>, <<"c">>, <<"c",",","d">>}),
     tv \in FileOf("notification.webhooks.telegram_bot_token", {<<"u","1",",","u","2">>}),
     cv \in FileOf("notification.webhooks.telegram_chat_id",
                   {<<"v","1">>, <<"v","1",",","v","2">>}),
     me \in EnvOf("MAX_ACCOUNTS_PER_CHANNEL", {<<"1">>}) :
    InitWith(te @@ ce @@ me, NoDotenv, Document(tv @@ cv))

\* e-mail: sender, password and recipient
InitEmail ==
  \E fe \in EnvOf("EMAIL_FROM", {<<" ">>, <<"x">>}),
     pe \in EnvOf("EMAIL_PASSWORD", {<<" ">>, <<"x">>}),
     re \in EnvOf("EMAIL_TO", {<<" ">>, <<"x">>}),
     fv \in FileOf("notification.webhooks.email_from", {<<"y">>}),
     pv \in FileOf("notification.webhooks.email_password", {<<"y">>}),
     rv \in FileOf("notification.webhooks.email_to", {<<"y">>}) :
    InitWith(fe @@ pe @@ re, NoDotenv, Document(fv @@ pv @@ rv))

\* ntfy: server, topics and tokens
InitNtfy ==
  \E se \in EnvOf("NTFY_SERVER_URL", {<<" ">>, <<"s">>}),
     sv \in FileOf("notification.webhooks.ntfy_server_url", {<<>>, <<"f">>}),
     te \in EnvOf("NTFY_TOPIC", {<<",">>, <<"a">>, <<"a",",","b">>}),
     tv \in FileOf("notification.webhooks.ntfy_topic", {<<"u","1",",","u","2">>}),
     ke \in EnvOf("NTFY_TOKEN", {<<"k">>, <<"k",",","l">>}),
     me \in EnvOf("MAX_ACCOUNTS_PER_CHANNEL", {<<"1">>}) :
    InitWith(se @@ te @@ ke @@ me, NoDotenv, Document(sv @@ tv))

\* a config file that is missing, empty, no YAML, or has a section that
\* is null or a scalar
InitAnomaly ==
  \E e \in EnvOf("ENABLE_CRAWLER", {<<"t","r","u","e">>}) :
    \/ InitWith(e, NoDotenv,
                [exists |-> FALSE, doc |-> "map", bad |-> {},
                 vals |-> EmptyDict])
    \/ \E d \in {"null", "invalid"} :
         InitWith(e, NoDotenv,
                  [exists |-> TRUE, doc |-> d, bad |-> {},
                   vals |-> EmptyDict])
    \/ \E sec \in Sections :
         InitWith(e, NoDotenv,
                  [exists |-> TRUE, doc |-> "map", bad |-> {sec},
                   vals |-> EmptyDict])

\* the lines a .env file is made of
DotenvLineSet ==
  {<<>>,
   <<"#"," ","E","N","A","B","L","E","_","C","R","A","W","L","E","R","=","f","a","l","s","e">>,
   <<"E","N","A","B","L","E","_","C","R","A","W","L","E","R","=","f","a","l","s","e">>,
   <<" ","E","N","A","B","L","E","_","C","R","A","W","L","E","R"," ","="," ","\"","t","r","u","e","\""," ">>,
   <<"E","N","A","B","L","E","_","C","R","A","W","L","E","R","=">>,
   <<"F","E","I","S","H","U","_","W","E","B","H","O","O","K","_","U","R","L","=","'","a",",","b","'">>,
   <<"F","E","I","S","H","U","_","W","E","B","H","O","O","K","_","U","R","L">>,
   <<"=","x">>}

RECURSIVE SeqsUpTo(_, _)
SeqsUpTo(S, n) ==
  IF n = 0 THEN {<<>>}
  ELSE SeqsUpTo(S, n - 1)
       \cup {Append(q, x) : q \in {r \in SeqsUpTo(S, n - 1) : Len(r) = n - 1},
                            x \in S}

\* a .env file beside a process environment
InitDotenv ==
  \E lines \in SeqsUpTo(DotenvLineSet, MaxDotenvLines),
     ce \in EnvOf("ENABLE_CRAWLER", {<<>>, <<"t","r","u","e">>, <<"0">>}),
     fe \in EnvOf("FEISHU_WEBHOOK_URL", {<<"c">>}),
     cv \in FileOf("crawler.enable_crawler", BOOLEAN),
     fv \in FileOf("notification.webhooks.feishu_url", {<<"u","1",",","u","2">>}) :
    InitWith(ce @@ fe, [exists |-> TRUE, lines |-> lines],
             Document(cv @@ fv))

Init ==
  \/ InitField
  \/ InitSingleChannel
  \/ InitTelegram
  \/ InitEmail
  \/ InitNtfy
  \/ InitAnomaly
  \/ InitDotenv

Next ==
  \/ LoadDotenv
  \/ OpenConfig
  \/ LoadAppConfig
  \/ LoadCrawlerConfig
  \/ LoadReportConfig
  \/ LoadNotificationConfig
  \/ LoadPushWindowConfig
  \/ LoadWeightConfig
  \/ LoadPlatforms
  \/ LoadStorageConfig
  \/ LoadWebhookConfig
  \/ PrintNotificationSources

Spec == Init /\ [][Next]_vars

----------------------------------------------------------------------------
(* What the properties speak about.                                        *)

\* the run returned the configuration
Returned == pc = "done"

\* the value load_config resolved for the field of a variable
Resolved(name) ==
  CASE name = "PUSH_WINDOW_ENABLED" -> config["PUSH_WINDOW"].ENABLED
    [] name = "PUSH_WINDOW_ONCE_PER_DAY" -> config["PUSH_WINDOW"].ONCE_PER_DAY
    [] name = "PUSH_WINDOW_START" -> config["PUSH_WINDOW"].TIME_RANGE.START
    [] name = "PUSH_WINDOW_END" -> config["PUSH_WINDOW"].TIME_RANGE.END
    [] name = "STORAGE_BACKEND" -> config["STORAGE"].BACKEND
    [] name = "STORAGE_TXT_ENABLED" -> config["STORAGE"].FORMATS.TXT
    [] name = "STORAGE_HTML_ENABLED" -> config["STORAGE"].FORMATS.HTML
    [] name = "LOCAL_RETENTION_DAYS" -> config["STORAGE"].Local.RETENTION_DAYS
    [] name = "S3_ENDPOINT_URL" -> config["STORAGE"].REMOTE.ENDPOINT_URL
    [] name = "S3_BUCKET_NAME" -> config["STORAGE"].REMOTE.BUCKET_NAME
    [] name = "S3_ACCESS_KEY_ID" -> config["STORAGE"].REMOTE.ACCESS_KEY_ID
    [] name = "S3_SECRET_ACCESS_KEY" ->
         config["STORAGE"].REMOTE.SECRET_ACCESS_KEY
    [] name = "S3_REGION" -> config["STORAGE"].REMOTE.REGION
    [] name = "REMOTE_RETENTION_DAYS" ->
         config["STORAGE"].REMOTE.RETENTION_DAYS
    [] name = "PULL_ENABLED" -> config["STORAGE"].PULL.ENABLED
    [] name = "PULL_DAYS" -> config["STORAGE"].PULL.DAYS
    [] OTHER -> config[name]

\* the per-field default
Default(name) ==
  CASE name \in {"ENABLE_CRAWLER", "ENABLE_NOTIFICATION",
                 "PUSH_WINDOW_ONCE_PER_DAY", "STORAGE_TXT_ENABLED",
                 "STORAGE_HTML_ENABLED"} -> TRUE
    [] name \in {"SORT_BY_POSITION_FIRST", "REVERSE_CONTENT_ORDER",
                 "PUSH_WINDOW_ENABLED", "PULL_ENABLED"} -> FALSE
    [] name \in {"MAX_NEWS_PER_KEYWORD", "LOCAL_RETENTION_DAYS",
                 "REMOTE_RETENTION_DAYS"} -> 0
    [] name = "MAX_ACCOUNTS_PER_CHANNEL" -> 3
    [] name = "PULL_DAYS" -> 7
    [] name = "TIMEZONE" -> <<"Asia/Shanghai">>
    [] name = "REPORT_MODE" -> <<"daily">>
    [] name = "PUSH_WINDOW_START" -> <<"08:00">>
    [] name = "PUSH_WINDOW_END" -> <<"22:00">>
    [] name = "STORAGE_BACKEND" -> <<"auto">>
    [] name = "WEWORK_MSG_TYPE" -> <<"markdown">>
    [] name = "NTFY_SERVER_URL" -> <<"https://ntfy.sh">>
    [] OTHER -> <<>>

\* the variable is set
IsSet(name) == Spell[name] \in DOMAIN environ

\* the variable is present: set to a string that is non-empty after trimming
Present(name) == IsSet(name) /\ Strip(environ[Spell[name]]) # <<>>

\* the trimmed value of a set variable
Trimmed(name) == Strip(environ[Spell[name]])

\* the key exists in the document
InFile(path) == path \in DOMAIN file.vals

\* the file value if the key exists, else the default
FileOrDefault(fd) ==
  IF InFile(fd.path) THEN file.vals[fd.path] ELSE Default(fd.name)

\* c and d are the same character up to case
SameLetter(c, d) ==
  \/ c = d
  \/ \E i \in 1..Len(UpperChars) : {c, d} = {UpperChars[i], LowerChars[i]}

\* s equals t case-insensitively
SameText(s, t) ==
  Len(s) = Len(t) /\ \A i \in 1..Len(s) : SameLetter(s[i], t[i])

\* the lines of the summary for a channel
LinesOf(channel) ==
  {i \in 1..Len(sources) : sources[i].channel = channel}

\* the lines of the summary that state an account count
CountLines == {i \in 1..Len(sources) : sources[i].channel # "Email"}

----------------------------------------------------------------------------
(* C1: for every boolean field, a variable that is non-empty after         *)
(* trimming resolves the field to true exactly when the trimmed value is   *)
(* "true" or "1" case-insensitively, to false otherwise, and in both cases *)
(* replaces the file value or default.                                     *)
C1_BoolOverride ==
  Returned =>
    \A fd \in BoolFields :
      Present(fd.name) =>
        Resolved(fd.name) =
          (\/ SameText(Trimmed(fd.name), <<"t","r","u","e">>)
           \/ Trimmed(fd.name) = <<"1">>)

\* an explicit "false" overrides a file value of true
C1_Witness ==
  /\ Returned
  /\ \E fd \in BoolFields :
       /\ Present(fd.name)
       /\ Trimmed(fd.name) = <<"f","a","l","s","e">>
       /\ InFile(fd.path)
       /\ file.vals[fd.path] = TRUE
       /\ Resolved(fd.name) = FALSE

----------------------------------------------------------------------------
\* the integer fields for which 0 means "no limit"
ZeroMeaningful ==
  {"MAX_NEWS_PER_KEYWORD", "LOCAL_RETENTION_DAYS", "REMOTE_RETENTION_DAYS"}

\* the variable holds an integer literal
IsIntOverride(name) == Present(name) /\ IsIntLiteral(Trimmed(name))

(* C2: an integer variable that parses wins outright, an explicit 0        *)
(* included; only for the fields where 0 means "no limit" does a 0 fall    *)
(* through to the file value or default, so MAX_ACCOUNTS_PER_CHANNEL=0 and *)
(* PULL_DAYS=0 resolve to 0.                                               *)
C2_IntOverrideWins ==
  Returned =>
    \A fd \in IntFields :
      IsIntOverride(fd.name) =>
        Resolved(fd.name) =
          IF IntValue(Trimmed(fd.name)) = 0 /\ fd.name \in ZeroMeaningful
          THEN FileOrDefault(fd)
          ELSE IntValue(Trimmed(fd.name))

----------------------------------------------------------------------------
AllFields == BoolFields \cup IntFields \cup StrFields \cup WebhookFields

----------------------------------------------------------------------------
(* C10: for every integer field, a variable that is non-empty but is no    *)
(* integer literal resolves as if it were unset: the file value if the key *)
(* exists, else the default, and nothing is raised.                        *)
C10_UnparsableInt ==
  \A fd \in IntFields :
    (Present(fd.name) /\ ~IsIntLiteral(Trimmed(fd.name))) =>
      /\ pc # "raised"
      /\ Returned => Resolved(fd.name) = FileOrDefault(fd)

\* "abc" beside a file value other than the default
C10_Witness ==
  /\ Returned
  /\ \E fd \in IntFields :
       /\ Present(fd.name)
       /\ Trimmed(fd.name) = <<"a","b","c">>
       /\ InFile(fd.path)
       /\ file.vals[fd.path] # Default(fd.name)
       /\ Resolved(fd.name) = file.vals[fd.path]

----------------------------------------------------------------------------
\* the parsed lists of the paired channels
TelegramTokens == ParseMultiAccountConfig(config["TELEGRAM_BOT_TOKEN"])
TelegramChatIds == ParseMultiAccountConfig(config["TELEGRAM_CHAT_ID"])
NtfyTopics == ParseMultiAccountConfig(config["NTFY_TOPIC"])
NtfyTokens == ParseMultiAccountConfig(config["NTFY_TOKEN"])

\* lists of different lengths fail validation and keep the channel out of
\* the summary; a listed paired channel has lists of one length n > 0,
\* validated with count n
PairedChannelsSound ==
  /\ Len(TelegramTokens) # Len(TelegramChatIds) =>
       /\ ValidatePairedConfigs(<<TelegramTokens, TelegramChatIds>>)
            = [valid |-> FALSE, count |-> 0]
       /\ LinesOf("Telegram") = {}
  /\ LinesOf("Telegram") # {} =>
       /\ Len(TelegramTokens) = Len(TelegramChatIds)
       /\ Len(TelegramTokens) > 0
       /\ ValidatePairedConfigs(<<TelegramTokens, TelegramChatIds>>)
            = [valid |-> TRUE, count |-> Len(TelegramTokens)]
  /\ NtfyTokens # <<>> =>
       /\ Len(NtfyTopics) # Len(NtfyTokens) =>
            /\ ValidatePairedConfigs(<<NtfyTopics, NtfyTokens>>)
                 = [valid |-> FALSE, count |-> 0]
            /\ LinesOf("ntfy") = {}
       /\ LinesOf("ntfy") # {} =>
            /\ Len(NtfyTopics) = Len(NtfyTokens)
            /\ Len(NtfyTopics) > 0
            /\ ValidatePairedConfigs(<<NtfyTopics, NtfyTokens>>)
                 = [valid |-> TRUE, count |-> Len(NtfyTopics)]

(* C4: the summary step never raises and returns the configuration; after  *)
(* it a paired channel (Telegram, ntfy with tokens) whose lists differ in  *)
(* length is invalid with count 0 and absent from the summary, and a       *)
(* paired channel is listed only when its lists have one length n > 0.     *)
C4_PairedMismatch ==
  [][pc = "print" => (pc' = "done" /\ exc' = "" /\ PairedChannelsSound')]_vars

\* two bot tokens against one chat id: returned, Telegram not listed
C4_Witness ==
  /\ Returned
  /\ Len(TelegramTokens) = 2
  /\ Len(TelegramChatIds) = 1
  /\ LinesOf("Telegram") = {}

----------------------------------------------------------------------------
(* C5: every line of the summary that states an account count states one   *)
(* greater than 0: a channel with no valid token, or with a capped count   *)
(* that is not positive, is left out.                                      *)
C5_OnlyPositiveCounts ==
  Returned => \A i \in CountLines : sources[i].count > 0

----------------------------------------------------------------------------
\* the variable whose presence labels the line of a channel
LabelVariable(channel) ==
  CASE channel = "Feishu" -> "FEISHU_WEBHOOK_URL"
    [] channel = "DingTalk" -> "DINGTALK_WEBHOOK_URL"
    [] channel = "WeWork" -> "WEWORK_WEBHOOK_URL"
    [] channel = "Telegram" -> "TELEGRAM_BOT_TOKEN"
    [] channel = "Email" -> "EMAIL_FROM"
    [] channel = "ntfy" -> "NTFY_SERVER_URL"
    [] channel = "Bark" -> "BARK_URL"
    [] channel = "Slack" -> "SLACK_WEBHOOK_URL"

(* C6: a line of the summary says "environment" exactly when the variable  *)
(* of the channel is present (non-empty after trimming), which is when the *)
(* resolved value was taken from it, and "file" otherwise; a variable that *)
(* is only whitespace is reported as file.                                 *)
C6_SourceLabel ==
  Returned =>
    \A i \in 1..Len(sources) :
      LET name == LabelVariable(sources[i].channel)
      IN /\ sources[i].source = "env" <=> Present(name)
         /\ sources[i].source = "env" => config[name] = Trimmed(name)

----------------------------------------------------------------------------
\* the number of validated tokens of a listed channel
ValidatedTokens(channel) ==
  CASE channel = "Telegram" -> Len(TelegramTokens)
    [] channel = "ntfy" -> Len(NtfyTopics)
    [] OTHER -> Len(ParseMultiAccountConfig(config[LabelVariable(channel)]))

(* C7: the count of every line of the summary is the smaller of the number *)
(* of validated tokens and the resolved MAX_ACCOUNTS_PER_CHANNEL, so it    *)
(* never exceeds the maximum; 5 tokens under a maximum of 3 are counted 3. *)
C7_CountCapped ==
  Returned =>
    \A i \in CountLines :
      LET n == ValidatedTokens(sources[i].channel)
          max == Resolved("MAX_ACCOUNTS_PER_CHANNEL")
          count == sources[i].count
      IN /\ count <= max
         /\ count <= n
         /\ count = n \/ count = max
         /\ (n = 5 /\ max = 3) => count = 3

\* 5 tokens under the default maximum of 3
C7_Witness ==
  /\ Returned
  /\ Resolved("MAX_ACCOUNTS_PER_CHANNEL") = 3
  /\ \E i \in CountLines :
       /\ ValidatedTokens(sources[i].channel) = 5
       /\ sources[i].count = 3

----------------------------------------------------------------------------
(* C8: no exception leaves load_config when the config file exists,        *)
(* whatever the document holds; a missing file raises FileNotFoundError.   *)
C8_OnlyMissingFileIsFatal ==
  /\ file.exists => pc # "raised"
  /\ ~file.exists =>
       /\ pc \in {"import", "open", "raised"}
       /\ pc = "raised" => exc = "FileNotFoundError"

----------------------------------------------------------------------------
\* line i of the .env file is the first that assigns the variable k
FirstAssignment(i, k) ==
  /\ IsAssignment(Strip(dotenv.lines[i]))
  /\ LineKey(Strip(dotenv.lines[i])) = k
  /\ \A j \in 1..(i - 1) :
       ~(/\ IsAssignment(Strip(dotenv.lines[j]))
         /\ LineKey(Strip(dotenv.lines[j])) = k)

(* C9: loading the .env file keeps every variable of the process           *)
(* environment at its value, an empty one too, and adds only variables     *)
(* that were absent, each with the value of its first assignment; the      *)
(* environment changes in no later step, so the load precedes every        *)
(* resolver.                                                               *)
C9_DotenvKeepsEnvironment ==
  [][/\ \A k \in DOMAIN environ :
          k \in DOMAIN environ' /\ environ'[k] = environ[k]
     /\ \A k \in DOMAIN environ' \ DOMAIN environ :
          /\ dotenv.exists
          /\ \E i \in 1..Len(dotenv.lines) :
               /\ FirstAssignment(i, k)
               /\ environ'[k] = LineValue(Strip(dotenv.lines[i]))
     /\ pc # "import" => environ' = environ]_vars

\* the file assigns a variable that the process had set to the empty
\* string, and the empty string is what the resolvers see
C9_Witness ==
  /\ Returned
  /\ dotenv.exists
  /\ \E i \in 1..Len(dotenv.lines) :
       \E k \in DOMAIN environ :
         /\ FirstAssignment(i, k)
         /\ LineValue(Strip(dotenv.lines[i])) # <<>>
         /\ environ[k] = <<>>

----------------------------------------------------------------------------
\* the "no channel configured" message was printed
SaysNoChannel == \E i \in 1..Len(output) : output[i].msg = "none"

\* the channel lines that were printed
PrintedLines ==
  IF \E i \in 1..Len(output) : output[i].msg = "sources"
  THEN output[CHOOSE i \in 1..Len(output) : output[i].msg = "sources"].lines
  ELSE <<>>

\* no webhook field is configured in the file or the environment
NoWebhookConfigured ==
  \A fd \in WebhookFields : ~Present(fd.name) /\ ~InFile(fd.path)

\* no webhook field other than those of Telegram is configured
OnlyTelegramConfigured ==
  \A fd \in WebhookFields :
    fd.name \notin {"TELEGRAM_BOT_TOKEN", "TELEGRAM_CHAT_ID"} =>
      ~Present(fd.name) /\ ~InFile(fd.path)

(* C11: the "no channel configured" message is printed exactly when no     *)
(* channel line is produced, and is then the whole output: with no webhook *)
(* field configured anywhere, and with only invalid channels such as a     *)
(* Telegram length mismatch; when a channel line is produced the lines are *)
(* printed and the message is not.                                         *)
C11_NoChannelMessage ==
  Returned =>
    /\ SaysNoChannel <=> sources = <<>>
    /\ SaysNoChannel => Len(output) = 1
    /\ sources # <<>> => PrintedLines = sources
    /\ NoWebhookConfigured => SaysNoChannel
    /\ (OnlyTelegramConfigured /\ Len(TelegramTokens) # Len(TelegramChatIds))
         => SaysNoChannel

\* Telegram alone is configured, with two bot tokens against one chat id,
\* and the message is the output
C11_Witness ==
  /\ Returned
  /\ Len(TelegramTokens) = 2
  /\ Len(TelegramChatIds) = 1
  /\ sources = <<>>
  /\ Len(output) = 1
  /\ output[1].msg = "none"

----------------------------------------------------------------------------
(* A run beside another actor that changes the process environment.        *)
(* os.environ is the shared mapping of the process: each _get_env_* call   *)
(* and each os.environ.get of the summary reads it at its own step.        *)

\* the variables the other actor sets or deletes
ActorNames == {"FEISHU_WEBHOOK_URL", "TELEGRAM_BOT_TOKEN"}

\* the values the other actor sets
ActorValues == {<<"z">>}

\* the steps of load_config, between its start and its end
Running == pc \notin {"import", "done", "raised"}

\* the function f without the argument k
Without(f, k) == [x \in DOMAIN f \ {k} |-> f[x]]

\* another actor sets or deletes a variable while load_config runs
EnvChange ==
  /\ Running
  /\ \E name \in ActorNames :
       \/ \E v \in ActorValues :
            /\ Getenv(name) # v
            /\ environ' = (Spell[name] :> v) @@ environ
       \/ /\ IsSet(name)
          /\ environ' = Without(environ, Spell[name])
  /\ UNCHANGED <<dotenv, file, config, sources, output, pc, exc>>

NextEnvChange == Next \/ EnvChange

SpecEnvChange == Init /\ [][NextEnvChange]_vars

\* the values a variable can hold in a snapshot; <<>> stands for unset too
SnapshotValues ==
  {<<>>} \cup ActorValues \cup StrEnvStrs \cup AccountEnvStrs
  \cup {environ[k] : k \in DOMAIN environ}
  \cup {config[LabelVariable(sources[i].channel)] : i \in 1..Len(sources)}

\* what _load_webhook_config resolves for a webhook variable of value x
WebhookValueUnder(name, path, x) ==
  IF name = "NTFY_SERVER_URL"
  THEN OrStr(OrStr(Strip(x), FGet(path, <<>>)), Default(name))
  ELSE OrStr(Strip(x), FGet(path, Default(name)))

\* the path of the key of a webhook variable
PathOf(name) == (CHOOSE fd \in WebhookFields : fd.name = name).path

(* C12: whatever another actor does to the environment during the run,     *)
(* the configuration and the summary are those of one fixed snapshot. A    *)
(* snapshot is any choice of one value per variable, and only the variable *)
(* that labels a channel is read twice, so this says: for every line of    *)
(* the summary there is one value of its variable that gives both the      *)
(* resolved channel value and the source label.                            *)
C12_OneSnapshot ==
  Returned =>
    \A i \in 1..Len(sources) :
      LET name == LabelVariable(sources[i].channel)
      IN \E x \in SnapshotValues :
           /\ config[name] = WebhookValueUnder(name, PathOf(name), x)
           /\ sources[i].source = (IF x # <<>> THEN "env" ELSE "file")

=============================================================================
